---- MODULE Spec2Model ----
(***************************************************************************)
(* Model of the BCSD link-check reporter (src/main.py): CSV rows to        *)
(* Issues, Markdown table rendering, the per-site loop of main, the run    *)
(* directories and the run-over-run delta.                                 *)
(*                                                                         *)
(* A Python str is a sequence of tokens.  A token is an indivisible piece  *)
(* of text; the token alphabet is prefix-free, so comparing two token      *)
(* sequences token by token in TokOrder is Python's comparison of the     *)
(* strings they spell.                                                     *)
(***************************************************************************)
EXTENDS Integers, Sequences, FiniteSets, TLC

\* ------------------------------------------------------------------ bounds
\* Most tokens in a result text of a generated CSV row.
MaxLen == 2
\* Most rows in a generated CSV text.
MaxRows == 2

\* ------------------------------------------------------------- str helpers
\* Every token of the texts the program compares, in the order of the text
\* it spells (code point order).
TokOrder ==
  << " ", "\"", "(", ")", "/", "403", "404", ":", "False", "Forbidden", "Invalid",
     "OK", "True", "Unknown error", "[", "\\", "]", "a", "b", "c", "false",
     "forbidden", "g", "https:", "invalid", "k", "ok", "true",
     "unknown error", "|" >>

TokRank(t) == CHOOSE i \in 1..Len(TokOrder) : TokOrder[i] = t

RECURSIVE StrLess(_, _)
\* a < b on Python strings.
StrLess(a, b) ==
  IF b = <<>> THEN FALSE
  ELSE IF a = <<>> THEN TRUE
  ELSE IF Head(a) = Head(b) THEN StrLess(Tail(a), Tail(b))
  ELSE TokRank(Head(a)) < TokRank(Head(b))

\* str.lower() of one token.
LowerTok(t) ==
  CASE t = "False" -> "false"
    [] t = "Forbidden" -> "forbidden"
    [] t = "Invalid" -> "invalid"
    [] t = "OK" -> "ok"
    [] t = "True" -> "true"
    [] t = "Unknown error" -> "unknown error"
    [] OTHER -> t

\* str.lower()
Lower(s) == [i \in 1..Len(s) |-> LowerTok(s[i])]

\* `needle in s`, for the needles the program searches for.  No needle spans
\* two tokens, and a token holds a needle only when it spells it.
Contains(s, needle) == \E i \in 1..Len(s) : s[i] = needle

IsSpace(t) == t = " "

RECURSIVE LStrip(_)
LStrip(s) == IF s # <<>> /\ IsSpace(Head(s)) THEN LStrip(Tail(s)) ELSE s

RECURSIVE RStrip(_)
RStrip(s) ==
  IF s # <<>> /\ IsSpace(s[Len(s)]) THEN RStrip(SubSeq(s, 1, Len(s) - 1)) ELSE s

\* str.strip()
Strip(s) == RStrip(LStrip(s))

RECURSIVE Split(_)
\* s.split('/'): the list of the pieces between the slashes.
Split(s) ==
  IF \A i \in 1..Len(s) : s[i] # "/" THEN << s >>
  ELSE LET i == CHOOSE j \in 1..Len(s) :
                  s[j] = "/" /\ \A m \in 1..(j - 1) : s[m] # "/"
       IN << SubSeq(s, 1, i - 1) >> \o Split(SubSeq(s, i + 1, Len(s)))

RECURSIVE Join(_)
\* '/'.join(parts)
Join(parts) ==
  IF parts = <<>> THEN <<>>
  ELSE IF Len(parts) = 1 THEN parts[1]
  ELSE parts[1] \o << "/" >> \o Join(Tail(parts))

\* All sequences over S of length at most n.
SeqUpTo(S, n) == UNION { [1..m -> S] : m \in 0..n }

\* ------------------------------------------------------------------- URLs
\* urllib.parse.urlparse, for URLs without params, query or fragment.
urlparse(url) ==
  LET hasScheme == url # <<>> /\ Head(url) = "https:"
      rest == IF hasScheme THEN Tail(url) ELSE url
      hasNetloc == Len(rest) >= 2 /\ rest[1] = "/" /\ rest[2] = "/"
      stop == CHOOSE j \in 3..(Len(rest) + 1) :
                /\ (j = Len(rest) + 1 \/ rest[j] = "/")
                /\ \A m \in 3..(j - 1) : rest[m] # "/"
  IN [ scheme |-> IF hasScheme THEN << "https:" >> ELSE <<>>,
       netloc |-> IF hasNetloc THEN SubSeq(rest, 3, stop - 1) ELSE <<>>,
       path |-> IF hasNetloc THEN SubSeq(rest, stop, Len(rest)) ELSE rest ]

\* urllib.parse.urlunparse
urlunparse(scheme, netloc, path) ==
  LET rooted == IF path # <<>> /\ Head(path) # "/" THEN << "/" >> \o path ELSE path
      withLoc == IF netloc # <<>> \/ (scheme # <<>> /\ SubSeq(path, 1, 2) # << "/", "/" >>)
                 THEN << "/", "/" >> \o netloc \o rooted
                 ELSE path
  IN scheme \o withLoc

\* The segments[1:-1] = filter(None, segments[1:-1]) of urljoin.
DropEmptyMiddle(segs) ==
  IF Len(segs) <= 2 THEN segs
  ELSE << segs[1] >>
       \o SelectSeq(SubSeq(segs, 2, Len(segs) - 1), LAMBDA p : p # <<>>)
       \o << segs[Len(segs)] >>

\* urllib.parse.urljoin, for paths without "." and ".." segments.
urljoin(base, url) ==
  IF base = <<>> THEN url
  ELSE IF url = <<>> THEN base
  ELSE
    LET b == urlparse(base)
        u == urlparse(url)
        scheme == IF u.scheme = <<>> THEN b.scheme ELSE u.scheme
    IN IF scheme # b.scheme THEN url
       ELSE IF u.netloc # <<>> THEN urlunparse(scheme, u.netloc, u.path)
       ELSE IF u.path = <<>> THEN urlunparse(scheme, b.netloc, b.path)
       ELSE
         LET parts == Split(b.path)
             base_parts == IF parts[Len(parts)] # <<>>
                           THEN SubSeq(parts, 1, Len(parts) - 1)
                           ELSE parts
             segments == IF Head(u.path) = "/" THEN Split(u.path)
                         ELSE DropEmptyMiddle(base_parts \o Split(u.path))
             joined == Join(segments)
         IN urlunparse(scheme, b.netloc,
                       IF joined = <<>> THEN << "/" >> ELSE joined)

\* A URL with a scheme and a host, as opposed to a relative reference.
IsAbsolute(url) == urlparse(url).scheme # <<>> /\ urlparse(url).netloc # <<>>

\* ------------------------------------------------------------------ Issue
\* The frozen dataclass Issue.
Issue(site, error_url, found_on, error) ==
  [ site |-> site, error_url |-> error_url, found_on |-> found_on, error |-> error ]

\* Issue.key()
key(i) == << i.site, i.error_url, i.found_on, i.error >>

\* Tuple comparison of two keys, as list.sort and sorted order them.
KeyLess(k, l) ==
  \E n \in 1..4 : (\A m \in 1..(n - 1) : k[m] = l[m]) /\ StrLess(k[n], l[n])

RECURSIVE Insert(_, _)
Insert(i, sorted) ==
  IF sorted = <<>> THEN << i >>
  ELSE IF KeyLess(key(i), key(Head(sorted))) THEN << i >> \o sorted
  ELSE << Head(sorted) >> \o Insert(i, Tail(sorted))

RECURSIVE SortIssues(_)
\* issues.sort(key=lambda i: (i.site, i.error_url, i.found_on, i.error)): a
\* stable sort, so each issue goes after the equal ones already placed.
SortIssues(issues) ==
  IF issues = <<>> THEN <<>>
  ELSE Insert(issues[Len(issues)], SortIssues(SubSeq(issues, 1, Len(issues) - 1)))

\* ------------------------------------------------------- CSV normalization
\* The columns of the rows csv.DictReader yields.
Columns == { "urlname", "url", "parentname", "result", "valid" }

\* pick(row, *names): the first named column that is present and non-empty,
\* stripped.
pick(row, names) ==
  LET hits == { n \in 1..Len(names) : names[n] \in DOMAIN row /\ row[names[n]] # <<>> }
  IN IF hits = {} THEN <<>>
     ELSE Strip(row[names[CHOOSE n \in hits : \A m \in hits : n <= m]])

error_indicators ==
  { "404", "500", "502", "503", "timeout", "error", "failed", "invalid", "exception" }

\* A filter that looks for the status code only.
IsForbidden_Only403(raw_result) == Contains(raw_result, "403")

\* "403" in raw_result or "Forbidden" in raw_result
IsForbidden(raw_result) ==
  Contains(raw_result, "403") \/ Contains(raw_result, "Forbidden")

\* A match that forgets to lower the result text.
HasErrorIndicator_CaseSensitive(raw_result) ==
  \E indicator \in error_indicators : Contains(raw_result, indicator)

\* any(indicator.lower() in raw_result.lower() for indicator in error_indicators)
HasErrorIndicator(raw_result) ==
  \E indicator \in error_indicators : Contains(Lower(raw_result), LowerTok(indicator))

\* "success" in raw_result.lower() or "ok" in raw_result.lower() or raw_result == "True"
IsSuccess(raw_result) ==
  \/ Contains(Lower(raw_result), "success")
  \/ Contains(Lower(raw_result), "ok")
  \/ raw_result = << "True" >>

\* re.sub(r"^\s*(in)?valid\s*:\s*", "", error, flags=re.IGNORECASE)
StripValidPrefix(error) ==
  LET s1 == LStrip(error)
      s2 == IF s1 = <<>> THEN <<>> ELSE LStrip(Tail(s1))
  IN IF /\ s1 # <<>>
        /\ LowerTok(Head(s1)) \in { "invalid", "valid" }
        /\ s2 # <<>>
        /\ Head(s2) = ":"
     THEN LStrip(Tail(s2))
     ELSE error

\* A resolution that forgets the site as the base.
_normalize_error_url_NoSite(site, found_on, error_url) == urljoin(found_on, error_url)

_normalize_error_url(site, found_on, error_url) ==
  LET base == IF found_on # <<>> THEN found_on ELSE site
  IN urljoin(base, error_url)

\* The found_on stored in the Issue: raw_parent or site.
FoundOn(site, raw_parent) == IF raw_parent # <<>> THEN raw_parent ELSE site

\* One iteration of the loop over the reader: the Issues the row appends
\* (none, or one).
RowIssues(site, row) ==
  LET raw_url == pick(row, << "urlname", "url", "realurl" >>)
      raw_parent == pick(row, << "parentname", "parenturl", "parent" >>)
      raw_result == pick(row, << "result", "valid", "warning", "info" >>)
      error == StripValidPrefix(raw_result)
  IN IF raw_url = <<>> /\ raw_result = <<>> THEN <<>>
     ELSE IF raw_result # <<>> /\ IsForbidden(raw_result) THEN <<>>
     ELSE IF /\ raw_result # <<>>
             /\ ~HasErrorIndicator(raw_result)
             /\ IsSuccess(raw_result)
          THEN <<>>
     ELSE << Issue(site,
                   _normalize_error_url(site, raw_parent, raw_url),
                   FoundOn(site, raw_parent),
                   IF error # <<>> THEN error ELSE << "Unknown error" >>) >>

RECURSIVE Flatten(_)
Flatten(lists) ==
  IF lists = <<>> THEN <<>> ELSE Head(lists) \o Flatten(Tail(lists))

\* _parse_csv_issues, from the rows the reader yields (an empty text yields
\* none) to the sorted list of Issues.
_parse_csv_issues(site, rows) ==
  SortIssues(Flatten([ n \in 1..Len(rows) |-> RowIssues(site, rows[n]) ]))

\* ------------------------------------------------------ Markdown rendering
RECURSIVE ReplacePipes(_)
\* text.replace("|", r"\|")
ReplacePipes(text) ==
  IF text = <<>> THEN <<>>
  ELSE (IF Head(text) = "|" THEN << "\\", "|" >> ELSE << Head(text) >>)
       \o ReplacePipes(Tail(text))

_md_escape(text) == Strip(ReplacePipes(text))

_md_link(url) ==
  LET u == Strip(url)
  IN IF u # <<>> THEN << "[" >> \o _md_escape(u) \o << "](" >> \o u \o << ")" >>
     ELSE <<>>

_host_slug(url) ==
  LET netloc == Lower(urlparse(url).netloc)
      host == IF netloc # <<>> THEN netloc ELSE << "unknown" >>
  IN [ n \in 1..Len(host) |-> IF host[n] = ":" THEN "_" ELSE host[n] ]

\* The table header of a site report, and one row of it.
SiteTableHeader == << "|", " Error URL ", "|", " Link found on ", "|", " Error ", "|" >>

SiteTableRow(i) ==
  << "|", " " >> \o _md_link(i.error_url) \o << " ", "|", " " >>
  \o _md_link(i.found_on) \o << " ", "|", " " >>
  \o _md_escape(i.error) \o << " ", "|" >>

\* _write_site_report: the lines written to out_md.
_write_site_report(site, issues) ==
  << << "# " >> \o site, <<>>,
     << "Broken link findings: **", ToString(Len(issues)), "**" >>, <<>> >>
  \o (IF issues = <<>>
      THEN << << "No broken links found." >>, <<>> >>
      ELSE << SiteTableHeader, << "|", " --- ", "|", " --- ", "|", " --- ", "|" >> >>
           \o [ n \in 1..Len(issues) |-> SiteTableRow(issues[n]) ]
           \o << <<>> >>)

\* --------------------------------------------------------------- summary
\* Python's None, and a value that may be None: None is the empty sequence
\* and any other value v is << v >>.
None == <<>>

Some(v) == << v >>

\* {i.key() for i in issues}
KeySet(issues) == { key(issues[n]) : n \in 1..Len(issues) }

\* added = cur_set - prev_set
Added(all_issues, prev_issues) == KeySet(all_issues) \ KeySet(prev_issues)

\* A delta that reports every previous key as removed.
Removed_NoSubtraction(all_issues, prev_issues) == KeySet(prev_issues)

\* removed = prev_set - cur_set
Removed(all_issues, prev_issues) == KeySet(prev_issues) \ KeySet(all_issues)

\* A count that is the size of the whole set for every site.
CountBySite_Total(keys, s) == Cardinality(keys)

\* added_by_site.get(s, 0) and removed_by_site.get(s, 0): the keys of the
\* set whose site is s.
CountBySite(keys, s) == Cardinality({ k \in keys : k[1] = s })

\* len(by_site.get(s, []))
SiteCount(all_issues, s) ==
  Cardinality({ n \in 1..Len(all_issues) : all_issues[n].site = s })

RECURSIVE SortedKeys(_)
\* sorted(keys)
SortedKeys(keys) ==
  IF keys = {} THEN <<>>
  ELSE LET least == CHOOSE k \in keys : \A l \in keys : ~KeyLess(l, k)
       IN << least >> \o SortedKeys(keys \ { least })

MAX_LIST == 50

\* list(sorted(keys))[:MAX_LIST]
Sample(keys) ==
  LET all == SortedKeys(keys)
  IN SubSeq(all, 1, IF Len(all) < MAX_LIST THEN Len(all) ELSE MAX_LIST)

fmt_issue_tuple(k) ==
  << "- " >> \o k[1] \o << "\n  - Error URL: " >> \o k[2]
  \o << "\n  - Found on: " >> \o k[3] \o << "\n  - Error: " >> \o k[4]

SummaryTableHeader ==
  << "|", " Site ", "|", " Broken ", "|", " New vs last ", "|",
     " Resolved vs last ", "|", " Report ", "|" >>

\* One row of the "By site" table.
SummaryTableRow(s, all_issues, prev_issues) ==
  LET host == _host_slug(s)
  IN << "|", " " >> \o s
     \o << " ", "|", " ", ToString(SiteCount(all_issues, s)),
           " ", "|", " ", ToString(CountBySite(Added(all_issues, prev_issues), s)),
           " ", "|", " ", ToString(CountBySite(Removed(all_issues, prev_issues), s)),
           " ", "|", " ", "[" >>
     \o host \o << ".md](", "sites/" >> \o host \o << ".md)", " ", "|" >>

\* The "Newly broken" or "Newly fixed" section.
DeltaSection(title, keys) ==
  << << title >>, <<>> >>
  \o (IF keys = {} THEN << << "None." >> >>
      ELSE [ n \in 1..Len(Sample(keys)) |-> fmt_issue_tuple(Sample(keys)[n]) ])
  \o (IF Cardinality(keys) > MAX_LIST
      THEN << << "\n(Showing ", ToString(MAX_LIST), " of ",
                 ToString(Cardinality(keys)), ".)" >> >>
      ELSE <<>>)
  \o << <<>> >>

\* _write_summary: the lines written to summary.md.
_write_summary(run, site_list, all, prev, version) ==
  << << "# BCSD Link Check Summary (", ToString(run), ")" >>, <<>> >>
  \o (IF version # None
      THEN << << "LinkChecker: " >> \o version[1], <<>> >>
      ELSE <<>>)
  \o << << "Total broken link findings: **", ToString(Len(all)), "**" >> >>
  \o (IF prev # <<>>
      THEN << << "Change vs previous run: **+",
                 ToString(Cardinality(Added(all, prev))),
                 "** new, **-",
                 ToString(Cardinality(Removed(all, prev))),
                 "** resolved" >> >>
      ELSE << << "No previous run found for comparison." >> >>)
  \o << <<>>, << "## By site" >>, <<>>, SummaryTableHeader,
        << "|", " --- ", "|", " ---: ", "|", " ---: ", "|", " ---: ", "|", " --- ", "|" >> >>
  \o [ n \in 1..Len(site_list) |-> SummaryTableRow(site_list[n], all, prev) ]
  \o << <<>> >>
  \o (IF prev # <<>>
      THEN DeltaSection("## Newly broken (sample)", Added(all, prev))
           \o DeltaSection("## Newly fixed (sample)", Removed(all, prev))
      ELSE <<>>)

\* ------------------------------------------------- snapshot and baseline
RECURSIVE JsonDumps(_)
\* json.dumps of a str, without the quotes around it: a backslash or a
\* double quote is written after a backslash, the rest as it is.
JsonDumps(text) ==
  IF text = <<>> THEN <<>>
  ELSE (IF Head(text) \in { "\\", "\"" } THEN << "\\", Head(text) >>
        ELSE << Head(text) >>) \o JsonDumps(Tail(text))

\* A decoder that takes the text between the quotes as it stands.
JsonLoads_NoUnescape(doc) == doc

RECURSIVE JsonLoads(_)
\* json.loads of the text between the quotes of a JSON string: the
\* character after a backslash stands for itself.
JsonLoads(doc) ==
  IF doc = <<>> THEN <<>>
  ELSE IF Head(doc) = "\\" /\ Len(doc) >= 2
       THEN << doc[2] >> \o JsonLoads(Tail(Tail(doc)))
       ELSE << Head(doc) >> \o JsonLoads(Tail(doc))

\* json.dumps of i.__dict__ with sort_keys=True: the object's members, as
\* name and value pairs in the order of the names.
ToJson(i) ==
  << << "error", JsonDumps(i.error) >>, << "error_url", JsonDumps(i.error_url) >>,
     << "found_on", JsonDumps(i.found_on) >>, << "site", JsonDumps(i.site) >> >>

\* item[name], for a member the object holds.
Member(item, name) ==
  item[CHOOSE n \in 1..Len(item) : item[n][1] = name][2]

\* Issue(**item)
FromJson(item) ==
  Issue(JsonLoads(Member(item, "site")), JsonLoads(Member(item, "error_url")),
        JsonLoads(Member(item, "found_on")), JsonLoads(Member(item, "error")))

\* The "issues" member of issues.json: [i.__dict__ for i in all_issues]
SnapshotOf(issues) == [ n \in 1..Len(issues) |-> ToJson(issues[n]) ]

\* A choice of baseline directory that forgets to leave out the current run.
PreviousRunDir_AnyRun(dirs, current) ==
  CHOOSE d \in dirs : \A e \in dirs : e <= d

\* run_dirs[-1] of the sorted directories other than the current run's.  A
\* directory is named by the time its run started; the names have a fixed
\* width, so their order as text is the order of the times.
PreviousRunDir(dirs, current) ==
  CHOOSE d \in dirs \ { current } : \A e \in dirs \ { current } : e <= d

\* Whether _load_previous_issues finds a snapshot to read.
HasBaseline(dir, current) ==
  /\ DOMAIN dir \ { current } # {}
  /\ dir[PreviousRunDir(DOMAIN dir, current)].issues_json # None

\* _load_previous_issues, when reading and decoding the snapshot succeed.
_load_previous_issues(dir, current) ==
  IF DOMAIN dir \ { current } = {} THEN <<>>
  ELSE LET prev == PreviousRunDir(DOMAIN dir, current)
       IN IF dir[prev].issues_json = None THEN <<>>
          ELSE [ n \in 1..Len(dir[prev].issues_json[1]) |->
                   FromJson(dir[prev].issues_json[1][n]) ]

\* A test that takes every non-zero exit code for a program error.
IsToolError_NonZero(rc) == rc # 0

\* if rc == 2: tool_errors.append(...)
IsToolError(rc) == rc = 2

\* The value main returns.
ExitCode(errors) == IF errors # <<>> THEN 2 ELSE 0

\* The default of --timeout.
DefaultTimeout == 30

\* overall_timeout = max(300, timeout * 10)
overall_timeout(seconds) == IF 300 >= seconds * 10 THEN 300 ELSE seconds * 10

\* An exit code that is the process's own also after a timeout.
ReturnCode_ProcessCode(code, timeout_expired) ==
  IF code # None THEN code[1] ELSE IF timeout_expired THEN 2 ELSE 1

\* rc = proc.returncode if proc.returncode is not None else (2 if timed_out
\* else 1); if timed_out: rc = 2
ReturnCode(code, timeout_expired) ==
  LET plain == IF code # None THEN code[1]
               ELSE IF timeout_expired THEN 2 ELSE 1
  IN IF timeout_expired THEN 2 ELSE plain

\* The live subprocesses after subprocess.Popen started the process p.
Spawned(procs, p) == procs \cup { p }

\* A wait that returns without the process having terminated.
Reaped_StillAlive(procs, p) == procs

\* The live subprocesses after proc.communicate() returned for the process
\* p: communicate returns when the process has terminated and been waited
\* for, by itself or after proc.kill().
Reaped(procs, p) == procs \ { p }

\* ================================================================ state
VARIABLES
  csv_site,    \* one site pass: the site
  csv_rows,    \* one site pass: the rows read from the site's CSV text
  parsed,      \* the list _parse_csv_issues returned
  emitted,     \* for each row, the Issues its loop iteration appended
  site_md,     \* the lines of the site's Markdown report
  summary_md,  \* the lines of summary.md
  parse_pc     \* "start", "parsed", "reported", "done"

parse_vars == << csv_site, csv_rows, parsed, emitted, site_md, summary_md, parse_pc >>

VARIABLES
  reports_dir,  \* the output directory: run directory name -> its issues.json
                \* ("issues" member, or None) and the Issues the run serialized
  run_id,       \* the name of the current run's directory; 0 before any run
  pc,           \* where main is
  sites,        \* the site list of the current run
  idx,          \* the index in sites of the site being handled
  linkchecker_version,
  timeout,      \* args.timeout, the per-request timeout in seconds
  proc,         \* the subprocess: "none", "running", "reaped"
  alive,        \* the tool subprocesses that were started and have not yet
                \* terminated, each named by its run and its site's index
  elapsed,      \* the seconds the tool takes to exit when left alone, once
                \* _run_linkchecker waits for it; 0 otherwise
  timed_out,
  out,          \* the captured standard output, as CSV rows
  returncode,   \* proc.returncode
  rc,           \* the exit code _run_linkchecker returned
  raw,          \* raw/<slug>.csv of the current run: slug -> rows
  site_reports, \* sites/<slug>.md of the current run: slug -> lines
  all_issues,
  tool_errors,  \* the sites with a tool_errors entry
  prev_issues,
  baseline,     \* the directory whose snapshot became prev_issues, or None
  added,        \* _write_summary's added
  removed,      \* _write_summary's removed
  summary,      \* the lines of summary.md, or None
  exit_code,    \* the exit code of the process, or None while it runs
  history,      \* per handled site, how the tool ended
  faults,       \* the failures the current run met
  run_limit,    \* the most invocations of main in this behaviour
  site_limit    \* the most sites in a site list in this behaviour

env_vars == << reports_dir, run_id, linkchecker_version, timeout, run_limit,
              site_limit >>
proc_vars == << proc, alive, elapsed, timed_out, out, returncode, rc >>
loop_vars == << sites, idx, raw, site_reports, all_issues, tool_errors >>
end_vars == << prev_issues, baseline, added, removed, summary, exit_code >>
run_vars == << env_vars, pc, proc_vars, loop_vars, end_vars, history, faults >>

vars == << parse_vars, run_vars >>

\* The state of main's variables in a specification that does not run main.
RunIdle ==
  /\ reports_dir = << >>
  /\ run_id = 0
  /\ pc = "off"
  /\ sites = <<>>
  /\ idx = 1
  /\ linkchecker_version = None
  /\ timeout = DefaultTimeout
  /\ proc = "none"
  /\ alive = {}
  /\ elapsed = 0
  /\ timed_out = FALSE
  /\ out = <<>>
  /\ returncode = None
  /\ rc = 0
  /\ raw = << >>
  /\ site_reports = << >>
  /\ all_issues = <<>>
  /\ tool_errors = <<>>
  /\ prev_issues = <<>>
  /\ baseline = None
  /\ added = {}
  /\ removed = {}
  /\ summary = None
  /\ exit_code = None
  /\ history = <<>>
  /\ faults = {}
  /\ run_limit = 0
  /\ site_limit = 0

\* ------------------------------------------------ inputs of one site pass
ParseSites ==
  { << "https:", "/", "/", "k", "/" >>,
    << "https:", "/", "/", "k" >>,
    << "https:", "/", "/", "k", "/", "a", "|", "b" >> }

ResultWords == { "403", "Forbidden", "404", "OK", "True", "Invalid", ":", " ", "|" }

Rows ==
  [ urlname : { <<>>, << "/", "a" >>, << "a", "|", "b" >> },
    url : { <<>>, << "https:", "/", "/", "g", "/", "a" >> },
    parentname : { <<>>, << "/", "b" >>, << "https:", "/", "/", "k", "/", "b", "/", "c" >> },
    result : SeqUpTo(ResultWords, MaxLen),
    valid : { <<>>, << "False" >> } ]

\* A further row of the same CSV text: a plain 404 finding.
MoreRow ==
  [ urlname |-> << "a" >>, url |-> <<>>, parentname |-> <<>>,
    result |-> << "404" >>, valid |-> << "False" >> ]

CsvTexts ==
  { <<>> } \cup
  { << r >> \o [ n \in 1..m |-> MoreRow ] : r \in Rows, m \in 0..(MaxRows - 1) }

ParseInit ==
  /\ csv_site \in ParseSites
  /\ csv_rows \in CsvTexts
  /\ parsed = <<>>
  /\ emitted = <<>>
  /\ site_md = <<>>
  /\ summary_md = <<>>
  /\ parse_pc = "start"
  /\ RunIdle

ParseIdle ==
  /\ csv_site = <<>>
  /\ csv_rows = <<>>
  /\ parsed = <<>>
  /\ emitted = <<>>
  /\ site_md = <<>>
  /\ summary_md = <<>>
  /\ parse_pc = "idle"

\* issues = _parse_csv_issues(site, csv_text)
ParseCsv ==
  /\ parse_pc = "start"
  /\ parsed' = _parse_csv_issues(csv_site, csv_rows)
  /\ emitted' = [ n \in 1..Len(csv_rows) |-> RowIssues(csv_site, csv_rows[n]) ]
  /\ parse_pc' = "parsed"
  /\ UNCHANGED << csv_site, csv_rows, site_md, summary_md, run_vars >>

\* _write_site_report(site, issues, out_md)
WriteSiteReport ==
  /\ parse_pc = "parsed"
  /\ site_md' = _write_site_report(csv_site, parsed)
  /\ parse_pc' = "reported"
  /\ UNCHANGED << csv_site, csv_rows, parsed, emitted, summary_md, run_vars >>

\* _write_summary for a run over this one site, with no previous run.
WriteSiteSummary ==
  /\ parse_pc = "reported"
  /\ summary_md' = _write_summary(1, << csv_site >>, parsed, <<>>, None)
  /\ parse_pc' = "done"
  /\ UNCHANGED << csv_site, csv_rows, parsed, emitted, site_md, run_vars >>

NextParse == ParseCsv \/ WriteSiteReport \/ WriteSiteSummary

SpecParse == ParseInit /\ [][NextParse]_vars

\* ============================================================ main's run
\* Most invocations of main into the output directory.
MaxRuns == 3
\* Most sites in a site list.
MaxSites == 2

RunSites == { << "https:", "/", "/", "k", "/" >>, << "https:", "/", "/", "g", "/" >> }

SiteLists(n) == SeqUpTo(RunSites, n)

\* The first line of `linkchecker --version`, or None when it printed nothing
\* or could not be run.
Versions == { Some(<< "LinkChecker 10" >>) }

\* --timeout: the default and a value given on the command line.
Timeouts == { DefaultTimeout, 60 }

\* How long the tool may take on a site, in seconds.
Durations == { 100, 400, 700 }

\* The exit codes of the tool: 0 clean, 1 issues found, 2 program error.
ToolExitCodes == { 0, 1, 2 }

\* proc.returncode after proc.kill(): the signal, or the code of a tool that
\* had just exited by itself.
KilledExitCodes == { -9, 1 }

\* A finding of the tool; its result text holds a double quote and a
\* backslash.
Finding(path) ==
  [ urlname |-> << "/", path >>, url |-> <<>>, parentname |-> <<>>,
    result |-> << "404", " ", "\"", "\\" >>, valid |-> << "False" >> ]

\* The CSV rows the tool may print for a site.
ToolOutputs == { <<>>, << Finding("a") >> }

\* Before the first run: an empty output directory.
InitRun ==
  /\ reports_dir = << >>
  /\ run_id = 0
  /\ pc = "idle"
  /\ sites = <<>>
  /\ idx = 1
  /\ linkchecker_version = None
  /\ timeout = DefaultTimeout
  /\ proc = "none"
  /\ alive = {}
  /\ elapsed = 0
  /\ timed_out = FALSE
  /\ out = <<>>
  /\ returncode = None
  /\ rc = 0
  /\ raw = << >>
  /\ site_reports = << >>
  /\ all_issues = <<>>
  /\ tool_errors = <<>>
  /\ prev_issues = <<>>
  /\ baseline = None
  /\ added = {}
  /\ removed = {}
  /\ summary = None
  /\ exit_code = None
  /\ history = <<>>
  /\ faults = {}
  /\ ParseIdle

\* A run and the run after it, each over a list of up to MaxSites sites.
Init == InitRun /\ run_limit = 2 /\ site_limit = MaxSites

\* Up to MaxRuns runs into the same output directory, each over at most one
\* site.
InitRuns == InitRun /\ run_limit = MaxRuns /\ site_limit = 1

\* main up to the creation of the run directory: the site list is read, the
\* run is named by the time and its directory, with raw/ and sites/, is made.
StartRun ==
  /\ pc \in { "idle", "done", "crashed", "exited" }
  /\ run_id < run_limit
  /\ \E list \in SiteLists(site_limit) : sites' = list
  /\ run_id' = run_id + 1
  /\ reports_dir' = reports_dir @@ (run_id' :> [ issues_json |-> None, collected |-> <<>> ])
  /\ pc' = "find"
  /\ idx' = 1
  /\ linkchecker_version' = None
  /\ \E t \in Timeouts : timeout' = t
  /\ proc' = "none"
  /\ elapsed' = 0
  /\ timed_out' = FALSE
  /\ out' = <<>>
  /\ returncode' = None
  /\ rc' = 0
  /\ UNCHANGED alive
  /\ raw' = << >>
  /\ site_reports' = << >>
  /\ all_issues' = <<>>
  /\ tool_errors' = <<>>
  /\ prev_issues' = <<>>
  /\ baseline' = None
  /\ added' = {}
  /\ removed' = {}
  /\ summary' = None
  /\ exit_code' = None
  /\ history' = <<>>
  /\ faults' = {}
  /\ UNCHANGED << run_limit, site_limit, parse_vars >>

\* _find_linkchecker and the capture of the tool's version; sys.exit(2) when
\* the tool is not in PATH.
FindLinkchecker ==
  /\ pc = "find"
  /\ \/ /\ \E v \in Versions : linkchecker_version' = v
        /\ pc' = "loop"
        /\ UNCHANGED exit_code
     \/ /\ pc' = "exited"
        /\ exit_code' = Some(2)
        /\ UNCHANGED linkchecker_version
  /\ UNCHANGED << reports_dir, run_id, timeout, run_limit, site_limit, proc_vars,
                  loop_vars, prev_issues, baseline, added, removed, summary, history, faults,
                  parse_vars >>

\* The next iteration of `for site in sites` up to subprocess.Popen in
\* _run_linkchecker: the subprocess starts, or Popen raises and
\* _run_linkchecker returns 2.
Popen ==
  /\ pc = "loop"
  /\ idx <= Len(sites)
  /\ \/ /\ proc' = "running"
        /\ alive' = Spawned(alive, << run_id, idx >>)
        /\ timed_out' = FALSE
        /\ pc' = "communicate"
        /\ UNCHANGED << rc, history, faults >>
     \/ /\ rc' = 2
        /\ history' = Append(history, [ kind |-> "launch_failure", code |-> None ])
        /\ faults' = faults \cup { "launch" }
        /\ pc' = "returned"
        /\ UNCHANGED << proc, alive, timed_out >>
  /\ UNCHANGED << env_vars, elapsed, out, returncode, loop_vars, end_vars, parse_vars >>

\* proc.communicate(timeout=overall_timeout): the tool exits within the
\* overall timeout, or TimeoutExpired is raised.
Communicate ==
  /\ pc = "communicate"
  /\ \E seconds \in Durations : elapsed' = seconds
  /\ \/ /\ elapsed' <= overall_timeout(timeout)
        /\ \E code \in ToolExitCodes : returncode' = Some(code)
        /\ \E rows \in ToolOutputs : out' = rows
        /\ proc' = "reaped"
        /\ alive' = Reaped(alive, << run_id, idx >>)
        /\ pc' = "write_csv"
        /\ UNCHANGED << timed_out, faults >>
     \/ /\ elapsed' > overall_timeout(timeout)
        /\ timed_out' = TRUE
        /\ faults' = faults \cup { "timeout" }
        /\ pc' = "kill"
        /\ UNCHANGED << proc, alive, out, returncode >>
  /\ UNCHANGED << env_vars, rc, loop_vars, end_vars, history, parse_vars >>

\* proc.kill() and the second proc.communicate(), which waits for the killed
\* process and collects what it had printed.
Kill ==
  /\ pc = "kill"
  /\ \E code \in KilledExitCodes : returncode' = Some(code)
  /\ \E rows \in ToolOutputs : out' = rows
  /\ proc' = "reaped"
  /\ alive' = Reaped(alive, << run_id, idx >>)
  /\ pc' = "write_csv"
  /\ UNCHANGED << env_vars, elapsed, timed_out, rc, loop_vars, end_vars, history,
                  faults, parse_vars >>

\* The rest of _run_linkchecker: the captured output is written to the raw
\* CSV file, a failure of the write being logged only, and the exit code is
\* returned, 2 after a timeout.  The locals of the call end with it.
WriteCsv ==
  /\ pc = "write_csv"
  /\ \/ /\ raw' = (_host_slug(sites[idx]) :> out) @@ raw
        /\ UNCHANGED faults
     \/ /\ faults' = faults \cup { "csv_write" }
        /\ UNCHANGED raw
  /\ rc' = ReturnCode(returncode, timed_out)
  /\ history' = Append(history,
                       IF timed_out THEN [ kind |-> "timeout", code |-> returncode ]
                       ELSE [ kind |-> "exit", code |-> returncode ])
  /\ pc' = "returned"
  /\ proc' = "none"
  /\ elapsed' = 0
  /\ timed_out' = FALSE
  /\ out' = <<>>
  /\ returncode' = None
  /\ UNCHANGED << env_vars, alive, sites, idx, site_reports, all_issues, tool_errors,
                  end_vars, parse_vars >>

\* tool_errors after `if rc == 2: tool_errors.append(...)`
ToolErrorsAfter(errors, site, code) ==
  IF IsToolError(code) THEN Append(errors, site) ELSE errors

\* The rest of the loop body, when out_csv.read_text succeeds: the tool
\* error is recorded, the CSV is parsed, the site report is written.
HandleSite ==
  /\ pc = "returned"
  /\ _host_slug(sites[idx]) \in DOMAIN raw
  /\ LET site == sites[idx]
         issues == _parse_csv_issues(site, raw[_host_slug(site)])
     IN /\ tool_errors' = ToolErrorsAfter(tool_errors, site, rc)
        /\ all_issues' = all_issues \o issues
        /\ site_reports' = (_host_slug(site) :> _write_site_report(site, issues))
                           @@ site_reports
  /\ idx' = idx + 1
  /\ pc' = "loop"
  /\ UNCHANGED << env_vars, proc_vars, sites, raw, end_vars, history, faults,
                  parse_vars >>

\* The rest of the loop body, when out_csv.read_text raises: the file was
\* never written, or cannot be read.  Nothing catches the exception and it
\* ends main; the interpreter exits with code 1.
ReadCsvRaises ==
  /\ pc = "returned"
  /\ \/ /\ _host_slug(sites[idx]) \notin DOMAIN raw
        /\ UNCHANGED faults
     \/ /\ _host_slug(sites[idx]) \in DOMAIN raw
        /\ faults' = faults \cup { "csv_read" }
  /\ tool_errors' = ToolErrorsAfter(tool_errors, sites[idx], rc)
  /\ pc' = "crashed"
  /\ exit_code' = Some(1)
  /\ UNCHANGED << env_vars, proc_vars, sites, idx, raw, site_reports, all_issues,
                  prev_issues, baseline, added, removed, summary, history,
                  parse_vars >>

\* After the loop: issues.json is written.
WriteSnapshot ==
  /\ pc = "loop"
  /\ idx > Len(sites)
  /\ reports_dir' = [ reports_dir EXCEPT ![run_id] =
                        [ issues_json |-> Some(SnapshotOf(all_issues)),
                          collected |-> all_issues ] ]
  /\ pc' = "load"
  /\ UNCHANGED << run_id, linkchecker_version, timeout, run_limit, site_limit,
                  proc_vars, loop_vars, end_vars, history, faults, parse_vars >>

\* prev_issues = _load_previous_issues(reports_dir, run_dir)
LoadPrevious ==
  /\ pc = "load"
  /\ prev_issues' = _load_previous_issues(reports_dir, run_id)
  /\ baseline' = IF HasBaseline(reports_dir, run_id)
                 THEN Some(PreviousRunDir(DOMAIN reports_dir, run_id))
                 ELSE None
  /\ pc' = "summary"
  /\ UNCHANGED << env_vars, proc_vars, loop_vars, added, removed, summary,
                  exit_code, history, faults, parse_vars >>

\* _load_previous_issues raises: the previous run's issues.json cannot be
\* read, is not JSON, or does not hold Issue objects.  Nothing catches the
\* exception and it ends main.
LoadPreviousRaises ==
  /\ pc = "load"
  /\ HasBaseline(reports_dir, run_id)
  /\ faults' = faults \cup { "prev_load" }
  /\ pc' = "crashed"
  /\ exit_code' = Some(1)
  /\ UNCHANGED << env_vars, proc_vars, loop_vars, prev_issues, baseline, added,
                  removed, summary, history, parse_vars >>

\* _write_summary and main's return.
WriteSummary ==
  /\ pc = "summary"
  /\ added' = Added(all_issues, prev_issues)
  /\ removed' = Removed(all_issues, prev_issues)
  /\ summary' = Some(_write_summary(run_id, sites, all_issues, prev_issues,
                                     linkchecker_version))
  /\ exit_code' = Some(ExitCode(tool_errors))
  /\ pc' = "done"
  /\ UNCHANGED << env_vars, proc_vars, loop_vars, prev_issues, baseline, history,
                  faults, parse_vars >>

Next ==
  \/ StartRun
  \/ FindLinkchecker
  \/ Popen
  \/ Communicate
  \/ Kill
  \/ WriteCsv
  \/ HandleSite
  \/ ReadCsvRaises
  \/ WriteSnapshot
  \/ LoadPrevious
  \/ LoadPreviousRaises
  \/ WriteSummary

Spec == Init /\ [][Next]_vars

SpecRuns == InitRuns /\ [][Next]_vars

\* ================================================================ claims
\* What the claims call a row's URL, parent page and result text: the first
\* non-empty column of each group, stripped.
RowUrl(row) == pick(row, << "urlname", "url", "realurl" >>)
RowParent(row) == pick(row, << "parentname", "parenturl", "parent" >>)
RowResult(row) == pick(row, << "result", "valid", "warning", "info" >>)

Mentions(text, words) == \E n \in 1..Len(text) : text[n] \in words

Says403(text) == Mentions(text, { "403", "Forbidden" })

SaysError(text) == Mentions(Lower(text), error_indicators)

SaysSuccess(text) == Mentions(Lower(text), { "success", "ok" }) \/ text = << "True" >>

ParsedRows == IF parse_pc \in { "parsed", "reported", "done" } THEN 1..Len(csv_rows) ELSE {}

\* C1: a row whose result text contains "403" or "Forbidden" emits no Issue,
\* whatever else the result text contains.
C1_ForbiddenRowsExcluded ==
  \A n \in ParsedRows :
    Says403(RowResult(csv_rows[n])) => emitted[n] = <<>>

C1_Witness ==
  /\ parse_pc = "parsed"
  /\ Len(csv_rows) = 2
  /\ Says403(RowResult(csv_rows[1]))
  /\ SaysError(RowResult(csv_rows[1]))
  /\ emitted[1] = <<>>
  /\ Len(parsed) = 1

\* C2 as stated: without "403"/"Forbidden", a result with an error indicator
\* is retained and a result that indicates success is excluded.
C2_Original ==
  \A n \in ParsedRows :
    LET text == RowResult(csv_rows[n])
    IN ~Says403(text) =>
         /\ SaysError(text) => Len(emitted[n]) = 1
         /\ SaysSuccess(text) => emitted[n] = <<>>

\* C2 amended: without "403"/"Forbidden", a result with an error indicator
\* is retained, also when it indicates success as well; a result that
\* indicates success and has no error indicator is excluded.
C2_IndicatorWinsOverSuccess ==
  \A n \in ParsedRows :
    LET text == RowResult(csv_rows[n])
    IN ~Says403(text) =>
         /\ SaysError(text) => Len(emitted[n]) = 1
         /\ (SaysSuccess(text) /\ ~SaysError(text)) => emitted[n] = <<>>

C2_Witness ==
  /\ parse_pc = "parsed"
  /\ csv_rows # <<>>
  /\ RowResult(csv_rows[1]) = << "Invalid", "OK" >>
  /\ Len(emitted[1]) = 1
  /\ emitted[1][1] \in { parsed[n] : n \in 1..Len(parsed) }

\* C3: every Issue comes from a row whose result text contains an error
\* indicator.
C3_OnlyErrorRowsEmit ==
  \A n \in ParsedRows :
    emitted[n] # <<>> => SaysError(RowResult(csv_rows[n]))

\* C4 as stated: without a parent page the error URL is resolved against
\* the site and found_on is the site; with a parent page found_on is stored
\* as an absolute URL.
C4_Original ==
  \A n \in ParsedRows : \A m \in 1..Len(emitted[n]) :
    LET i == emitted[n][m]
        parent == RowParent(csv_rows[n])
    IN /\ parent = <<>> =>
            /\ i.error_url = urljoin(csv_site, RowUrl(csv_rows[n]))
            /\ i.found_on = csv_site
       /\ parent # <<>> => IsAbsolute(i.found_on)

\* C4 amended: without a parent page the error URL is the row's URL resolved
\* against the site (an absolute URL) and found_on is the site; with a
\* parent page found_on is the parent text as given, relative or not, and
\* the error URL is the row's URL resolved against that parent, so it is
\* absolute only if the parent or the row's URL is.
C4_ResolvedAgainstSiteOrParent ==
  \A n \in ParsedRows : \A m \in 1..Len(emitted[n]) :
    LET i == emitted[n][m]
        parent == RowParent(csv_rows[n])
        url == RowUrl(csv_rows[n])
    IN /\ parent = <<>> =>
            /\ i.error_url = urljoin(csv_site, url)
            /\ IsAbsolute(i.error_url)
            /\ i.found_on = csv_site
       /\ parent # <<>> =>
            /\ i.found_on = parent
            /\ i.error_url = urljoin(parent, url)
            /\ IsAbsolute(i.error_url) <=> (IsAbsolute(parent) \/ IsAbsolute(url))

C4_Witness ==
  /\ parse_pc = "parsed"
  /\ csv_rows # <<>>
  /\ RowParent(csv_rows[1]) = <<>>
  /\ RowUrl(csv_rows[1]) = << "/", "a" >>
  /\ csv_site = << "https:", "/", "/", "k" >>
  /\ Len(emitted[1]) = 1
  /\ emitted[1][1].error_url = << "https:", "/", "/", "k", "/", "a" >>
  /\ emitted[1][1].found_on = csv_site

\* The unescaped pipes of a line: those not preceded by a backslash.
UnescapedPipes(line) ==
  Cardinality({ n \in 1..Len(line) : line[n] = "|" /\ (n = 1 \/ line[n - 1] # "\\") })

\* The lines of a table after its header and its separator line, up to the
\* blank line that ends the table.
TableRows(lines, header) ==
  LET at == { n \in 1..Len(lines) : lines[n] = header }
  IN IF at = {} THEN {}
     ELSE LET h == CHOOSE n \in at : TRUE
              end == CHOOSE e \in (h + 2)..Len(lines) :
                       lines[e] = <<>> /\ \A m \in (h + 2)..(e - 1) : lines[m] # <<>>
          IN { lines[m] : m \in (h + 2)..(end - 1) }

\* C6: every table row of the site report and of the summary has as many
\* unescaped pipes as its table header: each pipe that comes from rendered
\* data is preceded by a backslash.
C6_PipesEscaped ==
  /\ \A row \in TableRows(site_md, SiteTableHeader) :
       UnescapedPipes(row) = UnescapedPipes(SiteTableHeader)
  /\ \A row \in TableRows(summary_md, SummaryTableHeader) :
       UnescapedPipes(row) = UnescapedPipes(SummaryTableHeader)

\* The keys of a list of Issues, one by one.
KeysOf(issues) == { << issues[n].site, issues[n].error_url, issues[n].found_on,
                       issues[n].error >> : n \in 1..Len(issues) }

\* C5: with P the keys of the previous run's issues and C the keys of the
\* current run's, added is exactly C minus P and removed is exactly P minus
\* C; added and removed are disjoint and added is disjoint from P.
C5_DeltaIsSetDifference ==
  pc = "done" =>
    LET P == KeysOf(prev_issues)
        C == KeysOf(all_issues)
    IN /\ \A k \in P \cup C \cup added \cup removed :
            /\ k \in added <=> (k \in C /\ k \notin P)
            /\ k \in removed <=> (k \in P /\ k \notin C)
       /\ added \cap removed = {}
       /\ added \cap P = {}

C5_Witness ==
  /\ pc = "done"
  /\ removed # {}
  /\ KeysOf(all_issues) \cap KeysOf(prev_issues) # {}
  /\ added = {}

\* How the tool ended on the n-th site of the current run, as the claims
\* class it: a program error is exit code 2, a launch failure or a timeout.
ProgramError(n) ==
  \/ history[n].kind \in { "launch_failure", "timeout" }
  \/ history[n].kind = "exit" /\ history[n].code = Some(2)

\* C7: a run of main that completes returns 2 if and only if the tool's
\* result for at least one site was a program error, and 0 otherwise.
C7_ExitCodeTwoIffToolError ==
  pc = "done" =>
    /\ Len(history) = Len(sites)
    /\ exit_code = Some(IF \E n \in 1..Len(history) : ProgramError(n) THEN 2 ELSE 0)

C7_Witness ==
  /\ pc = "done"
  /\ Len(history) = 2
  /\ history[1] = [ kind |-> "exit", code |-> Some(1) ]
  /\ history[2].kind = "launch_failure"
  /\ exit_code = Some(2)

\* A run has stopped: main returned, or an exception ended it.
Stopped == pc \in { "done", "crashed" }

\* C8: a tool launch failure or an overall timeout on a site does not stop
\* the run: whatever the tool does on each site, every site of the list is
\* handled, a report is written for each, and issues.json and summary.md are
\* written.
C8_ToolFailureDoesNotStopRun ==
  (Stopped /\ faults \subseteq { "launch", "timeout" }) =>
    /\ pc = "done"
    /\ Len(history) = Len(sites)
    /\ \A n \in 1..Len(sites) : _host_slug(sites[n]) \in DOMAIN site_reports
    /\ reports_dir[run_id].issues_json # None
    /\ summary # None

\* C9: a CSV write failure, a CSV read failure or a previous-run load
\* failure is not fatal: main does not raise and still writes summary.md.
C9_FileFailureIsNotFatal ==
  (Stopped /\ faults \cap { "csv_write", "csv_read", "prev_load" } # {}
           /\ "launch" \notin faults) =>
    /\ pc = "done"
    /\ summary # None
    /\ exit_code \in { Some(0), Some(2) }

\* The run directories other than the current run's, and the one among them
\* with the greatest name.
OtherRuns == DOMAIN reports_dir \ { run_id }

LatestOther == CHOOSE d \in OtherRuns : \A e \in OtherRuns : e <= d

Loaded == pc \in { "summary", "done" }

\* C10 as stated: the baseline is the snapshot of the most recent other run,
\* never the current run's, and it is empty only when no earlier run with a
\* snapshot exists.
C10_Original ==
  Loaded =>
    IF \A d \in OtherRuns : reports_dir[d].issues_json = None
    THEN baseline = None /\ prev_issues = <<>>
    ELSE /\ baseline # None
         /\ baseline # Some(run_id)

\* C10 amended: the baseline is the snapshot of the run directory with the
\* greatest name other than the current run's own, never the current run's;
\* it is empty when there is no other run directory and also when that
\* directory holds no issues.json, even if an older run left a snapshot.
C10_BaselineIsLatestOtherRun ==
  Loaded =>
    IF OtherRuns = {} THEN baseline = None /\ prev_issues = <<>>
    ELSE IF reports_dir[LatestOther].issues_json = None
         THEN baseline = None /\ prev_issues = <<>>
         ELSE /\ baseline = Some(LatestOther)
              /\ LatestOther # run_id
              /\ prev_issues = reports_dir[LatestOther].collected

C10_Witness ==
  /\ pc = "done"
  /\ run_id = 3
  /\ baseline = Some(2)
  /\ reports_dir[1].issues_json # None
  /\ reports_dir[1].collected # reports_dir[2].collected
  /\ prev_issues = reports_dir[2].collected
  /\ prev_issues # <<>>

\* C11: at most one tool subprocess is alive at any time, and it is the one
\* of the site being handled; the sites are taken one by one in list order,
\* and main moves to another site, or another run, only when no subprocess
\* is alive, so each subprocess has terminated before the next is started.
C11_OneSubprocessAtATime ==
  /\ [](/\ alive \subseteq { << run_id, idx >> }
        /\ Cardinality(alive) <= 1
        /\ Len(history) \in { idx - 1, idx })
  /\ [][/\ alive' # alive /\ alive' # {} => alive = {}
        /\ idx' # idx => (alive = {} /\ (idx' = idx + 1 \/ idx' = 1))
        /\ run_id' # run_id => alive = {}]_vars

C11_Witness ==
  /\ pc = "communicate"
  /\ idx = 2
  /\ alive = { << run_id, 2 >> }
  /\ Len(history) = 1
  /\ history[1].kind = "timeout"
  /\ history[1].code = Some(-9)

\* C12: the Issues a run serialized to issues.json are, field for field and
\* in the same order, the Issues the run that takes that snapshot as its
\* baseline gets from _load_previous_issues; and a run whose issue keys are
\* those of its baseline run reports no added and no removed issue.
C12_SnapshotRoundTrip ==
  /\ (Loaded /\ baseline # None) =>
        /\ Len(prev_issues) = Len(reports_dir[baseline[1]].collected)
        /\ \A n \in 1..Len(prev_issues) :
             LET was == reports_dir[baseline[1]].collected[n]
                 is == prev_issues[n]
             IN /\ is.site = was.site
                /\ is.error_url = was.error_url
                /\ is.found_on = was.found_on
                /\ is.error = was.error
  /\ (pc = "done" /\ baseline # None
        /\ KeysOf(all_issues) = KeysOf(reports_dir[baseline[1]].collected)) =>
        /\ added = {}
        /\ removed = {}

C12_Witness ==
  /\ pc = "done"
  /\ run_id = 2
  /\ baseline = Some(1)
  /\ Len(all_issues) = 2
  /\ all_issues = reports_dir[1].collected
  /\ prev_issues = all_issues
  /\ \E n \in 1..Len(prev_issues[1].error) : prev_issues[1].error[n] = "\\"
  /\ added = {}
  /\ removed = {}

\* The sites handled so far whose tool_errors entry, if any, has been made.
Recorded ==
  IF pc \in { "communicate", "kill", "write_csv", "returned" } THEN idx - 1
  ELSE Len(history)

RECURSIVE TimedOutSites(_)
\* The sites among the first n of the run on which the tool timed out.
TimedOutSites(n) ==
  IF n = 0 THEN <<>>
  ELSE TimedOutSites(n - 1) \o
       (IF history[n].kind = "timeout" THEN << sites[n] >> ELSE <<>>)

RECURSIVE OtherErrorSites(_)
\* The sites among the first n of the run on which the tool did not time
\* out and has a tool_errors entry.
OtherErrorSites(n) ==
  IF n = 0 THEN <<>>
  ELSE OtherErrorSites(n - 1) \o
       (IF history[n].kind # "timeout" /\ ProgramError(n) THEN << sites[n] >> ELSE <<>>)

\* C13: the tool is taken to have timed out exactly when it runs longer than
\* max(300, 10 * timeout) seconds; it is then killed and waited for, the
\* output captured is what the write to the site's raw CSV file writes, the
\* call returns 2 whatever the killed process's own return code, the site
\* gets its tool_errors entry, and the tool is run once per site.
C13_TimeoutIsToolError ==
  /\ [](/\ pc \in { "kill", "write_csv" } =>
             (timed_out <=> (elapsed > 300 /\ elapsed > 10 * timeout))
        /\ (pc = "write_csv" /\ timed_out) => (alive = {} /\ returncode # None)
        /\ (pc = "returned" /\ history[idx].kind = "timeout") => rc = 2
        /\ Len(history) <= idx
        /\ Len(TimedOutSites(Recorded)) + Len(OtherErrorSites(Recorded))
             = Len(tool_errors)
        /\ \A n \in 1..Recorded :
             history[n].kind = "timeout" =>
               \E m \in 1..Len(tool_errors) : tool_errors[m] = sites[n])
  /\ [][/\ (pc = "communicate" /\ timed_out') => pc' = "kill"
        /\ pc = "kill" => (pc' = "write_csv" /\ timed_out' /\ idx' = idx)
        /\ (pc = "write_csv" /\ timed_out) =>
             /\ pc' = "returned"
             /\ idx' = idx
             /\ rc' = 2
             /\ history' = Append(history, [ kind |-> "timeout", code |-> returncode ])
             /\ \/ /\ _host_slug(sites[idx]) \in DOMAIN raw'
                   /\ raw'[_host_slug(sites[idx])] = out
                \/ "csv_write" \in faults']_vars

C13_Witness ==
  /\ pc = "loop"
  /\ idx = 2
  /\ timeout = 60
  /\ history = << [ kind |-> "timeout", code |-> Some(1) ] >>
  /\ tool_errors = << sites[1] >>
  /\ _host_slug(sites[1]) \in DOMAIN raw
  /\ raw[_host_slug(sites[1])] # <<>>
  /\ all_issues # <<>>

\* The n-th row of the "By site" table of summary.md, and the numbers in its
\* "New vs last" and "Resolved vs last" cells.
SiteRow(n) ==
  LET lines == summary[1]
      h == CHOOSE m \in 1..Len(lines) : lines[m] = SummaryTableHeader
  IN lines[h + 1 + n]

Number(cell) == CHOOSE v \in 0..(2 * MaxSites + 2) : ToString(v) = cell

NewCell(n) == Number(SiteRow(n)[Len(sites[n]) + 10])

ResolvedCell(n) == Number(SiteRow(n)[Len(sites[n]) + 14])

RECURSIVE SumNew(_)
SumNew(n) == IF n = 0 THEN 0 ELSE SumNew(n - 1) + NewCell(n)

RECURSIVE SumResolved(_)
SumResolved(n) == IF n = 0 THEN 0 ELSE SumResolved(n - 1) + ResolvedCell(n)

\* C14 as stated: in every summary the New cells of the per-site rows sum to
\* the number of added keys and the Resolved cells to the number of removed
\* keys, whatever the site list.
C14_Original ==
  pc = "done" =>
    /\ SumNew(Len(sites)) = Cardinality(added)
    /\ SumResolved(Len(sites)) = Cardinality(removed)

\* C14 amended: the table has one row per entry of the current site list;
\* the New and Resolved cells of a row count the added and the removed keys
\* of that row's site.  The cells sum to the totals when no site is listed
\* twice and every added or removed key belongs to a listed site; keys of a
\* site that is not in the current list are in the totals and in no row.
C14_RowsCountListedSites ==
  pc = "done" =>
    LET listed == { sites[n] : n \in 1..Len(sites) }
    IN /\ \A n \in 1..Len(sites) :
            /\ NewCell(n) = Cardinality({ k \in added : k[1] = sites[n] })
            /\ ResolvedCell(n) = Cardinality({ k \in removed : k[1] = sites[n] })
       /\ (/\ Cardinality(listed) = Len(sites)
           /\ \A k \in added \cup removed : k[1] \in listed) =>
            /\ SumNew(Len(sites)) = Cardinality(added)
            /\ SumResolved(Len(sites)) = Cardinality(removed)
       /\ Cardinality(listed) = Len(sites) =>
            /\ SumNew(Len(sites)) = Cardinality({ k \in added : k[1] \in listed })
            /\ SumResolved(Len(sites)) = Cardinality({ k \in removed : k[1] \in listed })

C14_Witness ==
  /\ pc = "done"
  /\ run_id = 2
  /\ Len(sites) = 2
  /\ sites[1] # sites[2]
  /\ Cardinality(added) = 1
  /\ Cardinality(removed) = 1
  /\ NewCell(1) = 1
  /\ ResolvedCell(2) = 1
  /\ SumNew(2) = 1
  /\ SumResolved(2) = 1

====
